---- MODULE Spec2Model ----
(***************************************************************************)
(* Space-Typing-Adventure: the screen switcher (App.switchToScreen, the    *)
(* ScreenController base, MenuScreenView) and the positioned entity        *)
(* (class Object).                                                         *)
(*                                                                         *)
(* Spec        the App: navigation requests, the public show()/hide() of   *)
(*             the two controllers, and game play that dirties the model.  *)
(*             switchToScreen is executed statement by statement (pc).     *)
(* ObjectSpec  the Object class: construction and the setters.             *)
(* ViewSpec    the two views between their construction and layer.add:     *)
(*             show()/hide() on a group that is on no layer yet.           *)
(***************************************************************************)
EXTENDS Integers, Sequences, FiniteSets

VARIABLES
    group,      \* view name -> its Konva.Group: [visible, attached]
    model,      \* GameScreenModel: [score]
    pc,         \* the statement of switchToScreen to execute next, or "idle"
    arg,        \* screen.type of the switchToScreen call in progress
    redraws,    \* layer.draw() requests issued by the operation in progress / last completed
    events,     \* view and model calls made by the operation in progress / last completed
    hist,       \* the last MaxHist completed operations, oldest first
    pre,        \* group and model as they were when the last operation began
    bypass,     \* the statements that called a view's show()/hide() themselves, not
                \* through ScreenController.show()/hide()
    ID,         \* the module-level counter `let ID`
    objects,    \* the Object instances, in construction order
    handles,    \* handle name -> the Konva.Group behind it
    nops,       \* Object operations performed so far
    olast       \* the last Object operation: [op, obj, val]

navVars == <<group, model, pc, arg, redraws, events, hist, pre, bypass>>

objVars == <<ID, objects, handles, nops, olast>>

vars == <<group, model, pc, arg, redraws, events, hist, pre, bypass, ID, objects, handles, nops, olast>>

\* ---------------------------------------------------------------- bounds
MaxHist == 3
MaxScore == 1
MaxOps == 3
MaxVal == 1

\* ---------------------------------------------------------------- types
Views == {"menu", "game"}

\* The tags of type Screen (part_000 line 19-21).
Recognized == {"menu", "game"}

\* What a caller can pass at runtime: the declared tags, and "result", the tag
\* the doc comment of Screen names and the type does not declare.
Tags == Recognized \cup {"result"}

\* ---------------------------------------------------------------- Konva.Group
KonvaGroup(v) == [visible |-> v, attached |-> FALSE]

LayerAdd(g) == [g EXCEPT !.attached = TRUE]

DrawAlways(g) == 1

\* this.group.getLayer()?.draw(): one request when the group is on a layer
DrawRequest(g) == IF g.attached THEN 1 ELSE 0

\* ---------------------------------------------------------------- views
MenuScreenViewNew == KonvaGroup(TRUE)

GameScreenViewNew == KonvaGroup(FALSE)

ShowToggle(g) == [g EXCEPT !.visible = ~@]

MenuScreenViewShow(g) == [g EXCEPT !.visible = TRUE]

MenuScreenViewHide(g) == [g EXCEPT !.visible = FALSE]

GameScreenViewShow(g) == [g EXCEPT !.visible = TRUE]

GameScreenViewHide(g) == [g EXCEPT !.visible = FALSE]

\* getView().show() / getView().hide(), by the controller's concrete view
ViewShow(c, g) == IF c = "menu" THEN MenuScreenViewShow(g) ELSE GameScreenViewShow(g)

ViewHide(c, g) == IF c = "menu" THEN MenuScreenViewHide(g) ELSE GameScreenViewHide(g)

\* ---------------------------------------------------------------- ScreenController
ControllerShow(c, grp) == [grp EXCEPT ![c] = ViewShow(c, grp[c])]

ControllerHide(c, grp) == [grp EXCEPT ![c] = ViewHide(c, grp[c])]

\* ---------------------------------------------------------------- GameScreenModel
ModelNew == [score |-> 0]

ModelReset(m) == [m EXCEPT !.score = 0]

\* ---------------------------------------------------------------- App constructor
StartupShowsGame(grp) == [grp EXCEPT !["game"] = GameScreenViewShow(grp["game"])]

\* this.menuController.getView().show()
StartupShow(grp) == [grp EXCEPT !["menu"] = MenuScreenViewShow(grp["menu"])]

AppConstructor ==
    LET created  == [v \in Views |-> IF v = "menu" THEN MenuScreenViewNew ELSE GameScreenViewNew]
        added    == [v \in Views |-> LayerAdd(created[v])]
    IN  [group |-> StartupShow(added),
         redraws |-> 1 + DrawRequest(added["menu"]),
         bypass |-> {"l176"}]

\* ---------------------------------------------------------------- history
Op(name, a) == [op |-> name, arg |-> a]

Record(h, o) == IF Len(h) < MaxHist THEN Append(h, o) ELSE Append(Tail(h), o)

Snapshot == [group |-> group, model |-> model]

Last == IF hist = << >> THEN Op("new", "none") ELSE hist[Len(hist)]

NavInit ==
    /\ group = AppConstructor.group
    /\ model = ModelNew
    /\ pc = "idle"
    /\ arg = "none"
    /\ redraws = AppConstructor.redraws
    /\ events = << >>
    /\ hist = << >>
    /\ pre = [group |-> AppConstructor.group, model |-> ModelNew]
    /\ bypass = AppConstructor.bypass

\* ---------------------------------------------------------------- switchToScreen
DispatchSwapped(t) ==
    CASE t = "menu" -> "l201"
      [] t = "game" -> "l196"
      [] OTHER -> "return"

\* switch (screen.type): the statement the call continues with
Dispatch(t) ==
    CASE t = "menu" -> "l196"
      [] t = "game" -> "l201"
      [] OTHER -> "return"

Return ==
    /\ pc' = "idle"
    /\ hist' = Record(hist, Op("switchToScreen", arg))

\* a navigation request arrives: switchToScreen(screen) is entered
SwitchToScreen(t) ==
    /\ pc = "idle"
    /\ pc' = "l190"
    /\ arg' = t
    /\ pre' = Snapshot
    /\ events' = << >>
    /\ redraws' = 0
    /\ UNCHANGED <<group, model, hist>>
    /\ UNCHANGED <<bypass, objVars>>

L190Show ==
    /\ pc = "l190"
    /\ group' = ControllerShow("menu", group)
    /\ redraws' = redraws + DrawRequest(group["menu"])
    /\ events' = Append(events, <<"show", "menu">>)
    /\ pc' = "l191"
    /\ UNCHANGED <<model, arg, hist, pre>>
    /\ UNCHANGED <<bypass, objVars>>

\* this.menuController.hide();
L190 ==
    /\ pc = "l190"
    /\ group' = ControllerHide("menu", group)
    /\ redraws' = redraws + DrawRequest(group["menu"])
    /\ events' = Append(events, <<"hide", "menu">>)
    /\ pc' = "l191"
    /\ UNCHANGED <<model, arg, hist, pre>>
    /\ UNCHANGED <<bypass, objVars>>

L191Skip ==
    /\ pc = "l191"
    /\ pc' = "l194"
    /\ UNCHANGED <<group, model, arg, redraws, events, hist, pre>>
    /\ UNCHANGED <<bypass, objVars>>

\* this.gameController.hide();
L191 ==
    /\ pc = "l191"
    /\ group' = ControllerHide("game", group)
    /\ redraws' = redraws + DrawRequest(group["game"])
    /\ events' = Append(events, <<"hide", "game">>)
    /\ pc' = "l194"
    /\ UNCHANGED <<model, arg, hist, pre>>
    /\ UNCHANGED <<bypass, objVars>>

\* switch (screen.type) with a matching case
L194 ==
    /\ pc = "l194"
    /\ Dispatch(arg) # "return"
    /\ pc' = Dispatch(arg)
    /\ UNCHANGED <<group, model, arg, redraws, events, hist, pre>>
    /\ UNCHANGED <<bypass, objVars>>

\* switch (screen.type) with no matching case: falls out of the switch and returns
L194NoCase ==
    /\ pc = "l194"
    /\ Dispatch(arg) = "return"
    /\ Return
    /\ UNCHANGED <<group, model, arg, redraws, events, pre>>
    /\ UNCHANGED <<bypass, objVars>>

\* case "menu": this.menuController.show(); break;
L196 ==
    /\ pc = "l196"
    /\ group' = ControllerShow("menu", group)
    /\ redraws' = redraws + DrawRequest(group["menu"])
    /\ events' = Append(events, <<"show", "menu">>)
    /\ Return
    /\ UNCHANGED <<model, arg, pre>>
    /\ UNCHANGED <<bypass, objVars>>

L201Reenter ==
    /\ pc = "l201"
    /\ pc' = "l190"
    /\ arg' = "menu"
    /\ UNCHANGED <<group, model, redraws, events, hist, pre>>
    /\ UNCHANGED <<bypass, objVars>>

\* case "game": this.gameController.startGame(), entered
L201 ==
    /\ pc = "l201"
    /\ pc' = "l237"
    /\ UNCHANGED <<group, model, arg, redraws, events, hist, pre>>
    /\ UNCHANGED <<bypass, objVars>>

L237NoReset ==
    /\ pc = "l237"
    /\ pc' = "l240"
    /\ UNCHANGED <<group, model, arg, redraws, events, hist, pre>>
    /\ UNCHANGED <<bypass, objVars>>

\* startGame: this.model.reset();
L237 ==
    /\ pc = "l237"
    /\ model' = ModelReset(model)
    /\ events' = Append(events, <<"reset", "game">>)
    /\ pc' = "l240"
    /\ UNCHANGED <<group, arg, redraws, hist, pre>>
    /\ UNCHANGED <<bypass, objVars>>

\* startGame: this.view.show(); then break and return
L240 ==
    /\ pc = "l240"
    /\ group' = [group EXCEPT !["game"] = GameScreenViewShow(group["game"])]
    /\ redraws' = redraws + DrawRequest(group["game"])
    /\ events' = Append(events, <<"show", "game">>)
    /\ Return
    /\ UNCHANGED <<model, arg, pre>>
    /\ bypass' = bypass \cup {"l240"}
    /\ UNCHANGED objVars

\* ---------------------------------------------------------------- other callers
\* controller.show(), called from outside switchToScreen
Show(c) ==
    /\ pc = "idle"
    /\ pre' = Snapshot
    /\ group' = ControllerShow(c, group)
    /\ redraws' = DrawRequest(group[c])
    /\ events' = << <<"show", c>> >>
    /\ hist' = Record(hist, Op("show", c))
    /\ UNCHANGED <<model, pc, arg>>
    /\ UNCHANGED <<bypass, objVars>>

\* controller.hide(), called from outside switchToScreen
Hide(c) ==
    /\ pc = "idle"
    /\ pre' = Snapshot
    /\ group' = ControllerHide(c, group)
    /\ redraws' = DrawRequest(group[c])
    /\ events' = << <<"hide", c>> >>
    /\ hist' = Record(hist, Op("hide", c))
    /\ UNCHANGED <<model, pc, arg>>
    /\ UNCHANGED <<bypass, objVars>>

\* game play while the game screen is up: the model leaves its reset state
Play ==
    /\ pc = "idle"
    /\ group["game"].visible
    /\ model.score < MaxScore
    /\ pre' = Snapshot
    /\ model' = [model EXCEPT !.score = @ + 1]
    /\ redraws' = 0
    /\ events' = << >>
    /\ hist' = Record(hist, Op("play", "game"))
    /\ UNCHANGED <<group, pc, arg>>
    /\ UNCHANGED <<bypass, objVars>>

\* ---------------------------------------------------------------- event handlers
\* the handlers the controllers hand to an event source: MenuScreenController gives
\* handleStartClick to its view, which registers it for "click" on the start button;
\* GameScreenController gives endGame to nobody
Registered == {"handleStartClick"}

\* a click on the start button (delivered while the menu group is shown):
\* handleStartClick calls switchToScreen({type: "game"})
StartClick ==
    /\ "handleStartClick" \in Registered
    /\ group["menu"].visible
    /\ SwitchToScreen("game")

\* a game-end event: endGame calls switchToScreen({type: "menu"})
GameEnd ==
    /\ "endGame" \in Registered
    /\ group["game"].visible
    /\ SwitchToScreen("menu")

Next ==
    \/ \E t \in Tags : SwitchToScreen(t)
    \/ L190
    \/ L191
    \/ L194
    \/ L194NoCase
    \/ L196
    \/ L201
    \/ L237
    \/ L240
    \/ \E c \in Views : Show(c)
    \/ \E c \in Views : Hide(c)
    \/ Play
    \/ StartClick

\* ================================================================ class Object
\* ./constants is not among the sources: the stage size stands for any even size
\* with STAGE_WIDTH # STAGE_HEIGHT.
STAGE_WIDTH == 8

STAGE_HEIGHT == 6

\* n / 2; every width, height and stage size of the model is even, so the integer
\* quotient is the quotient the code computes
Half(n) == n \div 2

\* the values setters and explicit constructor arguments are called with: small
\* ones, a negative one, and one beyond the stage size and beyond a full turn
Vals == (-1..MaxVal) \cup {400}

\* the Konva.Group instances callers hand to Object: fresh groups (Konva's default
\* position, rotation, scale and offset) of two different sizes
HandleNames == {"a", "b"}

Width(h) == IF h = "a" THEN 2 ELSE 6

Height(h) == IF h = "a" THEN 4 ELSE 2

KonvaHandle(w, h) ==
    [x |-> 0, y |-> 0, rotation |-> 0, scaleX |-> 1, scaleY |-> 1,
     offsetX |-> 0, offsetY |-> 0, width |-> w, height |-> h]

ObjInit ==
    /\ ID = 0
    /\ objects = << >>
    /\ handles = [h \in HandleNames |-> KonvaHandle(Width(h), Height(h))]
    /\ nops = 0
    /\ olast = [op |-> "none", obj |-> 0, val |-> 0]

\* default parameter values of the constructor
DefaultRank == 1

DefaultX == Half(STAGE_WIDTH)

DefaultY == Half(STAGE_HEIGHT)

IDStuck(id) == id

\* ID++ : the counter after the increment
IDNext(id) == id + 1

\* this._image.offsetX(this._image.width() / 2); this._image.offsetY(this._image.height() / 2)
CenterOffset(k) == [k EXCEPT !.offsetX = Half(k.width), !.offsetY = Half(k.height)]

\* the fields the constructor assigns
ObjectNew(id, image, rank, x, y) ==
    [Id |-> id, rank |-> rank, rotation |-> 0, scale |-> 1, x |-> x, y |-> y, image |-> image]

RotationOff(k, v) == k

\* this._image.rotation(this._rotation)
HandleRotation(k, v) == [k EXCEPT !.rotation = v]

ScaleXOnly(k, v) == [k EXCEPT !.scaleX = v]

ScaleMovesOffset(k, v) ==
    [k EXCEPT !.scaleX = v, !.scaleY = v, !.offsetX = @ * v, !.offsetY = @ * v]

\* this._image.scaleX(value); this._image.scaleY(value)
HandleScale(k, v) == [k EXCEPT !.scaleX = v, !.scaleY = v]

HandleXY(k, v) == [k EXCEPT !.x = v, !.y = v]

\* this._image.x(value)
HandleX(k, v) == [k EXCEPT !.x = v]

\* this._image.y(value)
HandleY(k, v) == [k EXCEPT !.y = v]

Did(name, o, v) == [op |-> name, obj |-> o, val |-> v]

Budget ==
    /\ nops < MaxOps
    /\ nops' = nops + 1
    /\ UNCHANGED navVars

\* new Object(image, rank, x, y)
Construct(h, rank, x, y, how) ==
    /\ Budget
    /\ objects' = Append(objects, ObjectNew(ID, h, rank, x, y))
    /\ ID' = IDNext(ID)
    /\ handles' = [handles EXCEPT ![h] = CenterOffset(@)]
    /\ olast' = Did(how, Len(objects) + 1, rank)

\* new Object(image)
ConstructDefault(h) == Construct(h, DefaultRank, DefaultX, DefaultY, "new")

\* new Object(image, v, v + 1, v + 2): three arguments that differ
ConstructExplicit(h, v) == Construct(h, v, v + 1, v + 2, "newWith")

\* o.rank = v
SetRank(o, v) ==
    /\ Budget
    /\ objects' = [objects EXCEPT ![o].rank = v]
    /\ olast' = Did("rank", o, v)
    /\ UNCHANGED <<ID, handles>>

\* o.rotation = v
SetRotation(o, v) ==
    /\ Budget
    /\ objects' = [objects EXCEPT ![o].rotation = v]
    /\ handles' = [handles EXCEPT ![objects[o].image] = HandleRotation(@, v)]
    /\ olast' = Did("rotation", o, v)
    /\ UNCHANGED ID

\* o.scale = v
SetScale(o, v) ==
    /\ Budget
    /\ objects' = [objects EXCEPT ![o].scale = v]
    /\ handles' = [handles EXCEPT ![objects[o].image] = HandleScale(@, v)]
    /\ olast' = Did("scale", o, v)
    /\ UNCHANGED ID

\* o.x = v
SetX(o, v) ==
    /\ Budget
    /\ objects' = [objects EXCEPT ![o].x = v]
    /\ handles' = [handles EXCEPT ![objects[o].image] = HandleX(@, v)]
    /\ olast' = Did("x", o, v)
    /\ UNCHANGED ID

\* o.y = v
SetY(o, v) ==
    /\ Budget
    /\ objects' = [objects EXCEPT ![o].y = v]
    /\ handles' = [handles EXCEPT ![objects[o].image] = HandleY(@, v)]
    /\ olast' = Did("y", o, v)
    /\ UNCHANGED ID

SetImageRecenter(o, h) ==
    /\ Budget
    /\ objects' = [objects EXCEPT ![o].image = h]
    /\ handles' = [handles EXCEPT ![h] = CenterOffset(@)]
    /\ olast' = Did("image", o, h)
    /\ UNCHANGED ID

\* o.image = h
SetImage(o, h) ==
    /\ Budget
    /\ objects' = [objects EXCEPT ![o].image = h]
    /\ olast' = Did("image", o, h)
    /\ UNCHANGED <<ID, handles>>

ObjectNext ==
    \/ \E h \in HandleNames : ConstructDefault(h)
    \/ \E h \in HandleNames, v \in Vals : ConstructExplicit(h, v)
    \/ \E o \in DOMAIN objects, v \in Vals : SetRank(o, v)
    \/ \E o \in DOMAIN objects, v \in Vals : SetRotation(o, v)
    \/ \E o \in DOMAIN objects, v \in Vals : SetScale(o, v)
    \/ \E o \in DOMAIN objects, v \in Vals : SetX(o, v)
    \/ \E o \in DOMAIN objects, v \in Vals : SetY(o, v)
    \/ \E o \in DOMAIN objects, h \in HandleNames : SetImage(o, h)

\* ================================================================ specifications
Init == NavInit /\ ObjInit

Spec == Init /\ [][Next]_vars

ObjectSpec == Init /\ [][ObjectNext]_vars

\* ---------------------------------------------------------------- views before layer.add
\* the two views as their constructors leave them (App.constructor after line 165):
\* no group has been added to the layer yet
ViewsCreated ==
    [v \in Views |-> IF v = "menu" THEN MenuScreenViewNew ELSE GameScreenViewNew]

ViewInit ==
    /\ group = ViewsCreated
    /\ model = ModelNew
    /\ pc = "idle"
    /\ arg = "none"
    /\ redraws = 0
    /\ events = << >>
    /\ hist = << >>
    /\ pre = [group |-> ViewsCreated, model |-> ModelNew]
    /\ bypass = {}
    /\ ObjInit

\* this.layer.add(controller.getView().getGroup())
Attach(c) ==
    /\ pc = "idle"
    /\ ~group[c].attached
    /\ pre' = Snapshot
    /\ group' = [group EXCEPT ![c] = LayerAdd(@)]
    /\ redraws' = 0
    /\ events' = << >>
    /\ hist' = Record(hist, Op("add", c))
    /\ UNCHANGED <<model, pc, arg, bypass, objVars>>

ViewNext ==
    \/ \E c \in Views : Show(c)
    \/ \E c \in Views : Hide(c)
    \/ \E c \in Views : Attach(c)

ViewSpec == ViewInit /\ [][ViewNext]_vars

\* ================================================================ navigation properties
Visible(v) == group[v].visible

Returned(t) == pc = "idle" /\ Last = Op("switchToScreen", t)

Prev == IF Len(hist) < 2 THEN Op("new", "none") ELSE hist[Len(hist) - 1]

Count(e) == Cardinality({i \in DOMAIN events : events[i] = e})

Before(e, f) == \A i, j \in DOMAIN events : (events[i] = e /\ events[j] = f) => i < j

InCall == pc \in {"l191", "l194", "l196", "l201", "l237", "l240"}

\* C1: after every switchToScreen call with a declared tag returns, exactly one of
\* the two views is visible, and it is the view of the screen the call named.
C1_OneTargetVisible ==
    \A t \in Recognized : Returned(t) => \A v \in Views : Visible(v) <=> (v = t)

C1_Witness ==
    /\ Returned("game")
    /\ hist = <<Op("switchToScreen", "game"), Op("switchToScreen", "menu"), Op("switchToScreen", "game")>>
    /\ Visible("game")
    /\ ~Visible("menu")

\* C2: when the App constructor has finished and nothing has been requested yet,
\* the menu view is visible and the game view is hidden.
C2_Startup ==
    (pc = "idle" /\ hist = << >>) => (Visible("menu") /\ ~Visible("game"))

C2_Witness ==
    /\ pc = "idle"
    /\ hist = << >>
    /\ Visible("menu")
    /\ ~Visible("game")
    /\ \A v \in Views : group[v].attached

\* C3: every switchToScreen({type:"game"}) resets the game model exactly once, before
\* the game view is shown; on return the game view is visible, the menu view hidden
\* and the model in its reset state.
C3_StartGame ==
    /\ Returned("game") =>
          /\ Count(<<"reset", "game">>) = 1
          /\ Count(<<"show", "game">>) = 1
          /\ Before(<<"reset", "game">>, <<"show", "game">>)
          /\ Visible("game")
          /\ ~Visible("menu")
          /\ model = ModelNew
    /\ (pc = "l240" /\ arg = "game") => (Count(<<"reset", "game">>) = 1 /\ model = ModelNew /\ ~Visible("game"))

C3_Witness ==
    /\ Returned("game")
    /\ pre.group["game"].visible
    /\ pre.model.score > 0
    /\ model.score = 0
    /\ Visible("game")

\* C4: within one switchToScreen, both controllers are hidden before the single show
\* of the target, and at no step after the first are both views visible, whatever
\* was visible when the call began.
C4_HideAllBeforeShow ==
    /\ InCall => ~(Visible("menu") /\ Visible("game"))
    /\ (InCall \/ pc = "l190" \/ Last.op = "switchToScreen") =>
          /\ \A v, w \in Views : Before(<<"hide", v>>, <<"show", w>>)
          /\ Cardinality({i \in DOMAIN events : events[i][1] = "show"}) <= 1
          /\ \A i \in DOMAIN events : events[i][1] = "show" =>
                \A v \in Views : \E j \in 1..(i - 1) : events[j] = <<"hide", v>>

C4_Witness ==
    /\ pc = "l240"
    /\ pre.group["menu"].visible
    /\ pre.group["game"].visible
    /\ events = << <<"hide", "menu">>, <<"hide", "game">>, <<"reset", "game">> >>

\* the visibility switchToScreen(t) leaves: a function of t alone
SwitchResult(t) == [v \in Views |-> v = t]

Visibility(grp) == [v \in Views |-> grp[v].visible]

\* C5: the visibility left by switchToScreen(s) depends only on s, whatever was
\* visible before (both, none or one), and a second switchToScreen(s) leaves what
\* the first one left.
C5_Idempotent ==
    \A t \in Recognized : Returned(t) =>
        /\ Visibility(group) = SwitchResult(t)
        /\ Prev = Op("switchToScreen", t) => Visibility(group) = Visibility(pre.group)

C5_Witness ==
    /\ pc = "idle"
    /\ hist = <<Op("show", "game"), Op("switchToScreen", "menu"), Op("switchToScreen", "menu")>>
    /\ Visibility(group) = SwitchResult("menu")
    /\ Visibility(pre.group) = SwitchResult("menu")

\* C6: show() leaves a view visible and hide() leaves it hidden from any starting
\* visibility; a repeated show() or hide() changes nothing and only requests a
\* redraw again; neither changes anything but the visibility of the view's group.
C6_ShowHide ==
    \A c \in Views :
        /\ (pc = "idle" /\ Last = Op("show", c)) => Visible(c)
        /\ (pc = "idle" /\ Last = Op("hide", c)) => ~Visible(c)
        /\ (pc = "idle" /\ Last \in {Op("show", c), Op("hide", c)}) =>
              /\ group[c].attached = pre.group[c].attached
              /\ \A d \in Views \ {c} : group[d] = pre.group[d]
              /\ model = pre.model
              /\ redraws = DrawRequest(pre.group[c])
              /\ Prev = Last => (group = pre.group /\ redraws = 1)

C6_Witness ==
    /\ pc = "idle"
    /\ hist = <<Op("show", "menu"), Op("hide", "menu"), Op("show", "menu")>>
    /\ Visible("menu")
    /\ ~pre.group["menu"].visible

\* C7: a switchToScreen call whose tag matches no controller never returns normally.
C7_UnrecognizedIsFatal ==
    ~(pc = "idle" /\ Last.op = "switchToScreen" /\ Last.arg \notin Recognized)

\* ================================================================ Object properties
Image(o) == handles[objects[o].image]

Just(name, o) == olast.op = name /\ olast.obj = o

\* C8: the Ids of the constructed entities are pairwise distinct, each is the value
\* the single counter had when the entity was constructed, the counter only grows,
\* and no operation changes the Id of an entity that exists.
C8_IdentityUniqueStable ==
    [][/\ \A i, j \in DOMAIN objects' : i # j => objects'[i].Id # objects'[j].Id
       /\ \A i \in DOMAIN objects' : objects'[i].Id < ID'
       /\ \A i \in DOMAIN objects : i \in DOMAIN objects' /\ objects'[i].Id = objects[i].Id
       /\ ID' >= ID
       /\ Len(objects') > Len(objects) =>
             /\ ID' > ID
             /\ objects'[Len(objects')].Id = ID]_vars

C8_Witness ==
    /\ Len(objects) = 2
    /\ nops = 3
    /\ Just("new", 2)
    /\ objects[1].rotation = 400
    /\ objects[1].Id = 0
    /\ objects[2].Id = 1
    /\ ID = 2

\* C9: right after a rotation, scale, x or y setter is called with v, the entity's
\* property and the property of its current handle (scaleX and scaleY for scale) are
\* exactly v.
C9_SettersPropagate ==
    \A o \in DOMAIN objects :
        /\ Just("rotation", o) => (objects[o].rotation = olast.val /\ Image(o).rotation = olast.val)
        /\ Just("scale", o) =>
              (objects[o].scale = olast.val /\ Image(o).scaleX = olast.val /\ Image(o).scaleY = olast.val)
        /\ Just("x", o) => (objects[o].x = olast.val /\ Image(o).x = olast.val)
        /\ Just("y", o) => (objects[o].y = olast.val /\ Image(o).y = olast.val)

C9_Witness ==
    /\ Len(objects) = 2
    /\ Just("scale", 2)
    /\ olast.val = 400
    /\ objects[2].scale = 400
    /\ Image(2).scaleX = 400
    /\ Image(2).scaleY = 400
    /\ objects[1].image # objects[2].image

\* C10: right after new Object(image) the entity is at the stage midpoint and so is
\* its handle, the handle's offset is half its width and height, rank is 1, rotation
\* 0 and scale 1.
C10_DefaultCentered ==
    \A o \in DOMAIN objects : Just("new", o) =>
        /\ objects[o].x = Half(STAGE_WIDTH)
        /\ objects[o].y = Half(STAGE_HEIGHT)
        /\ Image(o).x = objects[o].x
        /\ Image(o).y = objects[o].y
        /\ Image(o).offsetX = Half(Image(o).width)
        /\ Image(o).offsetY = Half(Image(o).height)
        /\ objects[o].rank = 1
        /\ objects[o].rotation = 0
        /\ objects[o].scale = 1

\* an Object operation has just been performed, and it was `name`
Step(name) == nops' # nops /\ olast'.op = name

TransformSetters == {"rank", "rotation", "scale", "x", "y"}

\* C11: the constructor leaves the handle's offset at half its width and height, and
\* no rank, rotation, scale, x or y setter changes the offset (or the size) of any
\* handle afterwards.
C11_OffsetFixed ==
    [][/\ (Step("new") \/ Step("newWith")) =>
             LET k == handles'[objects'[olast'.obj].image]
             IN  k.offsetX = Half(k.width) /\ k.offsetY = Half(k.height)
       /\ (\E n \in TransformSetters : Step(n)) =>
             \A h \in HandleNames :
                 /\ handles'[h].offsetX = handles[h].offsetX
                 /\ handles'[h].offsetY = handles[h].offsetY
                 /\ handles'[h].width = handles[h].width
                 /\ handles'[h].height = handles[h].height]_vars

C11_Witness ==
    /\ Len(objects) = 1
    /\ nops = 3
    /\ Just("scale", 1)
    /\ objects[1].scale = 400
    /\ objects[1].rotation = 400
    /\ Image(1).offsetX = Half(Image(1).width)
    /\ Image(1).offsetY = Half(Image(1).height)
    /\ Image(1).offsetX # Image(1).offsetY

\* C12: the image setter changes only which handle the entity refers to: Id, rank,
\* rotation, scale, x and y stay, no other entity changes, and no handle changes, so
\* the new handle keeps the offset and every other property it had.
C12_ImageSwapOnly ==
    [][Step("image") =>
          /\ Len(objects') = Len(objects)
          /\ \A o \in DOMAIN objects :
                /\ objects'[o].Id = objects[o].Id
                /\ objects'[o].rank = objects[o].rank
                /\ objects'[o].rotation = objects[o].rotation
                /\ objects'[o].scale = objects[o].scale
                /\ objects'[o].x = objects[o].x
                /\ objects'[o].y = objects[o].y
                /\ o # olast'.obj => objects'[o].image = objects[o].image
          /\ objects'[olast'.obj].image = olast'.val
          /\ handles' = handles
          /\ ID' = ID]_vars

\* the entity now refers to a handle no constructor has centred: its offset is
\* still 0 although its width and height are not
C12_Witness ==
    /\ Len(objects) = 1
    /\ Just("image", 1)
    /\ objects[1].image = "b"
    /\ handles["b"].offsetX = 0
    /\ handles["b"].offsetY = 0
    /\ handles["b"].width > 0
    /\ objects[1].x = 400
    /\ handles["b"].x = 0

\* what setter n, called with v, does to an entity and to the handle it refers to
EntityAfter(e, n, v) ==
    CASE n = "rank" -> [e EXCEPT !.rank = v]
      [] n = "rotation" -> [e EXCEPT !.rotation = v]
      [] n = "scale" -> [e EXCEPT !.scale = v]
      [] n = "x" -> [e EXCEPT !.x = v]
      [] n = "y" -> [e EXCEPT !.y = v]

HandleAfter(k, n, v) ==
    CASE n = "rank" -> k
      [] n = "rotation" -> [k EXCEPT !.rotation = v]
      [] n = "scale" -> [k EXCEPT !.scaleX = v, !.scaleY = v]
      [] n = "x" -> [k EXCEPT !.x = v]
      [] n = "y" -> [k EXCEPT !.y = v]

\* the setter changes its own property of the entity and of its handle, and nothing
\* else of either; no other entity changes
OwnPropertyOnly(n) ==
    LET o == olast'.obj
        v == olast'.val
    IN  /\ objects' = [objects EXCEPT ![o] = EntityAfter(@, n, v)]
        /\ handles'[objects[o].image] = HandleAfter(handles[objects[o].image], n, v)

\* the handles of the other entities (of all of them, or of those with a handle of
\* their own) are left as they were
OthersHandlesKept(sharedToo) ==
    \A p \in DOMAIN objects \ {olast'.obj} :
        (sharedToo \/ objects[p].image # objects[olast'.obj].image) =>
            handles'[objects[p].image] = handles[objects[p].image]

\* C15 as stated: each setter changes only its own property, and no setter on one
\* entity changes any other entity or its handle.
C15_SetterFrame ==
    [][\A n \in TransformSetters : Step(n) => (OwnPropertyOnly(n) /\ OthersHandlesKept(TRUE))]_vars

\* C15 as amended: each setter changes only its own property (of the entity and of
\* its handle), no other entity changes, and the handle of another entity changes
\* only when that entity refers to the same handle.
C15_SetterFrameUnshared ==
    [][\A n \in TransformSetters : Step(n) => (OwnPropertyOnly(n) /\ OthersHandlesKept(FALSE))]_vars

C15_Witness ==
    /\ Len(objects) = 2
    /\ objects[1].image # objects[2].image
    /\ Just("x", 1)
    /\ objects[1].x = 400
    /\ Image(1).x = 400
    /\ Image(1).y = 0
    /\ objects[1].y = DefaultY
    /\ Image(2).x = 0
    /\ objects[2].x = DefaultX

\* the entity's stored rotation, scale, x and y are those of the handle it refers to
AgreeIn(objs, hs, o) ==
    LET e == objs[o]
        k == hs[objs[o].image]
    IN  /\ e.rotation = k.rotation
        /\ e.scale = k.scaleX
        /\ e.scale = k.scaleY
        /\ e.x = k.x
        /\ e.y = k.y

Agree(o) == AgreeIn(objects, handles, o)

\* C16 as stated: every setter, the image setter with any new handle included, keeps
\* an entity that agreed with its handle in agreement with its current handle.
C16_AgreementKept ==
    [][\A n \in TransformSetters \cup {"image"} :
          (Step(n) /\ Agree(olast'.obj)) => AgreeIn(objects', handles', olast'.obj)]_vars

\* C16 as amended: the rank, rotation, scale, x and y setters keep the agreement; the
\* image setter keeps it when the new handle's rotation, scale, x and y already are
\* the entity's.
C16_AgreementKeptBySetters ==
    [][/\ \A n \in TransformSetters :
             (Step(n) /\ Agree(olast'.obj)) => AgreeIn(objects', handles', olast'.obj)
       /\ (Step("image") /\ AgreeIn([objects EXCEPT ![olast'.obj].image = olast'.val], handles, olast'.obj)) =>
             AgreeIn(objects', handles', olast'.obj)]_vars

\* new Object(a, -1, 0, 1); o.y = 1 (in agreement from here); o.rotation = 400
C16_Witness ==
    /\ Len(objects) = 1
    /\ nops = 3
    /\ Just("rotation", 1)
    /\ objects[1].rotation = 400
    /\ objects[1].x = 0
    /\ objects[1].y = 1
    /\ objects[1].scale = 1
    /\ objects[1].rank = -1
    /\ Agree(1)

\* C14: every visibility change goes through ScreenController.show()/hide(); neither
\* the App nor a concrete controller calls a view's show()/hide() itself.
C14_SingleCodePath == bypass = {}

\* C13: show() and hide() on a view whose group is on no layer complete, set the
\* group's visibility as asked, and request no redraw.
C13_NoLayerNoRedraw ==
    \A c \in Views :
        (pc = "idle" /\ Last \in {Op("show", c), Op("hide", c)} /\ ~pre.group[c].attached) =>
            /\ Visible(c) <=> (Last.op = "show")
            /\ redraws = 0
            /\ ~group[c].attached
            /\ \A d \in Views \ {c} : group[d] = pre.group[d]

C13_Witness ==
    /\ pc = "idle"
    /\ hist = <<Op("add", "game"), Op("show", "menu"), Op("hide", "menu")>>
    /\ pre.group["menu"].visible
    /\ ~pre.group["menu"].attached
    /\ ~Visible("menu")
    /\ redraws = 0

\* C17: both navigation transitions exist: while the menu is shown the start click
\* leads to switchToScreen(game), and once switchToScreen(game) has shown the game
\* a game-end event leads to switchToScreen(menu).
C17_BothTransitions ==
    pc = "idle" =>
        /\ Visible("menu") => ENABLED StartClick
        /\ (Returned("game") /\ Visible("game")) => ENABLED GameEnd

\* the statements that can follow one another inside switchToScreen
Succ ==
    {<<"l190", "l191">>, <<"l191", "l194">>, <<"l194", "l196">>, <<"l194", "l201">>,
     <<"l194", "idle">>, <<"l196", "idle">>, <<"l201", "l237">>, <<"l237", "l240">>,
     <<"l240", "idle">>}

\* the view and model calls of one whole switchToScreen(t)
CallEvents(t) ==
    << <<"hide", "menu">>, <<"hide", "game">> >> \o
    (CASE t = "menu" -> << <<"show", "menu">> >>
       [] t = "game" -> << <<"reset", "game">>, <<"show", "game">> >>
       [] OTHER -> << >>)

IsPrefix(p, q) == Len(p) <= Len(q) /\ \A i \in DOMAIN p : p[i] = q[i]

\* C18: once entered, switchToScreen goes from statement to statement up to its
\* return: no step enters switchToScreen again or starts another request, and the
\* hides and shows performed are those of this one call, in order.
C18_RunToCompletion ==
    [][/\ pc' = "l190" => pc = "idle"
       /\ pc # "idle" =>
             /\ <<pc, pc'>> \in Succ
             /\ arg' = arg
             /\ pre' = pre
             /\ IsPrefix(events, events')
             /\ IsPrefix(events', CallEvents(arg))
             /\ pc' = "idle" => (events' = CallEvents(arg) /\ hist' = Record(hist, Op("switchToScreen", arg)))
             /\ pc' # "idle" => hist' = hist]_vars

C18_Witness ==
    /\ Returned("menu")
    /\ Prev = Op("switchToScreen", "game")
    /\ events = CallEvents("menu")
    /\ redraws = 3
    /\ pre.group["game"].visible
    /\ ~Visible("game")

====
